---- MODULE Spec2Model ----
(***************************************************************************)
(* Model of the client-side search of web-php (PHPSearch): the index       *)
(* normalizer (processIndex), the localStorage cache with its 14 day TTL,  *)
(* and the loader with its fallback to English                             *)
(* (loadLanguageIndex / loadLanguageIndexWithFallback).                    *)
(*                                                                         *)
(* Representation of JavaScript values:                                    *)
(*   - a string is a sequence of text pieces; name and id use one piece    *)
(*     per character because split("::") and startsWith examine them;      *)
(*   - a search item is a record id/name/description/tag/type/methodName;  *)
(*   - undefined, null and arrays are tagged records (field t);            *)
(*   - the text kept in localStorage is either text that is not JSON or a  *)
(*     JSON document, written as a tree (field j) whose objects are        *)
(*     sequences of <<key, value>> pairs in the order of the text.         *)
(* Time is counted in days: one unit of the clock is MILLISECONDS_PER_DAY. *)
(***************************************************************************)
EXTENDS Integers, Sequences, FiniteSets, TLC

\* ------------------------------------------------------------------------
\* Bounds of the model
\* ------------------------------------------------------------------------
MaxCalls == 2
MaxTicks == 3
MaxResults == 3     \* results the engine returns for a query, at most
MaxSearches == 2    \* calls of search in one behaviour
MaxFound == 2       \* results the engine returns to the dialog, at most
MaxEntries == 2     \* pairs of a raw index

\* ------------------------------------------------------------------------
\* Program constants
\* ------------------------------------------------------------------------
MILLISECONDS_PER_DAY == 24 * 60 * 60 * 1000
CACHE_DAYS == 14
Boost == 10         \* result.score += 10
DefaultLimit == 30  \* initSearchUI = ({ language, limit = 30 })
DEBOUNCE_DELAY == 200   \* milliseconds

\* The clock of the model counts days.
ClockUnit == MILLISECONDS_PER_DAY

Languages == {"en", "xx"}

\* ------------------------------------------------------------------------
\* Strings
\* ------------------------------------------------------------------------
Sep == <<":", ":">>
LanguagePrefix == <<"l", "a", "n", "g", "u", "a", "g", "e">>

StartsWith(s, p) == Len(s) >= Len(p) /\ SubSeq(s, 1, Len(p)) = p

\* Index of the first occurrence of "::" in s, 0 when there is none.
FirstSep(s) ==
    LET hits == {i \in 1..(Len(s) - 1) : SubSeq(s, i, i + 1) = Sep}
    IN  IF hits = {} THEN 0 ELSE CHOOSE i \in hits : \A k \in hits : i <= k

\* The text after the last place at which "::" is found in s, overlapping
\* places included.
SplitPopLastPlace(s) ==
    LET places == {i \in 1..(Len(s) - 1) : SubSeq(s, i, i + 1) = Sep}
    IN  IF places = {} THEN s
        ELSE SubSeq(s, (CHOOSE i \in places : \A m \in places : m <= i) + 2,
                    Len(s))

\* name.split("::").pop(): split scans from the left for non-overlapping
\* separators; pop takes the last piece.
RECURSIVE SplitPop(_)
SplitPop(s) ==
    IF FirstSep(s) = 0 THEN s
    ELSE SplitPop(SubSeq(s, FirstSep(s) + 2, Len(s)))

\* ------------------------------------------------------------------------
\* JavaScript values
\* ------------------------------------------------------------------------
Undefined == [t |-> "undefined"]
JSNull == [t |-> "null"]
Arr(items) == [t |-> "array", a |-> items]

\* ------------------------------------------------------------------------
\* Index normalizer
\* ------------------------------------------------------------------------
\* A string as a value that can be compared with undefined.
Str(s) == [t |-> "string", s |-> s]

\* Element i (from 1) of an array of strings: undefined past its end.
Nth(a, i) == IF i <= Len(a) THEN Str(a[i]) ELSE Undefined

\* The switch over tag that matches the tags whatever their case.
TypeOfTagAnyCase(tag) ==
    CASE tag = Str(<<"phpdoc:varentry">>) -> <<"Variable">>
      [] tag \in {Str(<<"refentry">>), Str(<<"Refentry">>)} -> <<"Function">>
      [] tag = Str(<<"phpdoc:exceptionref">>) -> <<"Exception">>
      [] tag = Str(<<"phpdoc:classref">>) -> <<"Class">>
      [] tag \in {Str(<<"set">>), Str(<<"book">>), Str(<<"reference">>)}
            -> <<"Extension">>
      [] OTHER -> <<"General">>

\* The switch over tag, a string or undefined.
TypeOfTag(tag) ==
    CASE tag = Str(<<"phpdoc:varentry">>) -> <<"Variable">>
      [] tag = Str(<<"refentry">>) -> <<"Function">>
      [] tag = Str(<<"phpdoc:exceptionref">>) -> <<"Exception">>
      [] tag = Str(<<"phpdoc:classref">>) -> <<"Class">>
      [] tag \in {Str(<<"set">>), Str(<<"book">>), Str(<<"reference">>)}
            -> <<"Extension">>
      [] OTHER -> <<"General">>

\* The object the map callback returns for a name that is not falsy: a
\* property whose value is undefined is left out of the record (it reads
\* as undefined, and JSON.stringify leaves it out).
Item(id, name, description, tag, type, methodName) ==
    CASE tag # Undefined ->
            [id |-> id, name |-> name.s, description |-> description.s,
             tag |-> tag.s, type |-> type, methodName |-> methodName]
      [] description # Undefined ->
            [id |-> id, name |-> name.s, description |-> description.s,
             type |-> type, methodName |-> methodName]
      [] OTHER ->
            [id |-> id, name |-> name.s, type |-> type,
             methodName |-> methodName]

\* The map callback that tests the description in place of the name.
ProcessEntryByDescription(e) ==
    LET id == e[1]
        name == Nth(e[2].a, 1)
        description == Nth(e[2].a, 2)
        tag == Nth(e[2].a, 3)
    IN  IF description \in {Undefined, Str(<<>>)} THEN JSNull
        ELSE Item(id, name, description, tag, TypeOfTag(tag),
                  SplitPop(name.s))

\* One entry <<id, [name, description, tag]>> of the raw index: the array
\* is destructured, and an element it has not is undefined.
ProcessEntry(e) ==
    LET id == e[1]
        name == Nth(e[2].a, 1)
        description == Nth(e[2].a, 2)
        tag == Nth(e[2].a, 3)
    IN  IF name \in {Undefined, Str(<<>>)} THEN JSNull
        ELSE Item(id, name, description, tag, TypeOfTag(tag),
                  SplitPop(name.s))

\* index: the entries of the raw index in the order of Object.entries.
processIndex(index) ==
    SelectSeq([i \in 1..Len(index) |-> ProcessEntry(index[i])],
              LAMBDA x : x # JSNull)

\* ------------------------------------------------------------------------
\* JSON text
\* ------------------------------------------------------------------------
Num(n) == [t |-> "number", n |-> n]

JNull == [j |-> "null"]
JNum(n) == [j |-> "number", n |-> n]
JStr(s) == [j |-> "string", s |-> s]
JArr(xs) == [j |-> "array", xs |-> xs]
JObj(ps) == [j |-> "object", ps |-> ps]

\* What localStorage.getItem can return: null, or a text.
NoItem == JSNull
EmptyText == [t |-> "text", doc |-> [j |-> "empty"]]
NotJSONText == [t |-> "text", doc |-> [j |-> "invalid"]]
JSONText(doc) == [t |-> "text", doc |-> doc]

\* The order in which the properties of an item are written.
ItemKeys == <<"id", "name", "description", "tag", "type", "methodName">>

\* JSON.stringify of one search item: the properties it has, in insertion
\* order (the properties of the items of this model hold strings).
StringifyItem(item) ==
    LET present == SelectSeq(ItemKeys, LAMBDA k : k \in DOMAIN item)
    IN  JObj([i \in 1..Len(present) |->
                 <<present[i], JStr(item[present[i]])>>])

\* JSON.stringify({data: items, time: now}) for an array of search items.
JSONstringify(entry) ==
    JSONText(JObj(<<
        <<"data", JArr([i \in 1..Len(entry.data.a) |->
                           StringifyItem(entry.data.a[i])])>>,
        <<"time", JNum(entry.time.n)>> >>))

\* The value of key k in the pairs of a JSON object: the last pair wins.
LastPair(ps, k) ==
    LET hits == {i \in 1..Len(ps) : ps[i][1] = k}
    IN  ps[CHOOSE i \in hits : \A m \in hits : m <= i][2]

\* The value a JSON tree denotes: objects become functions from their keys.
RECURSIVE ParseDoc(_)
ParseDoc(d) ==
    CASE d.j = "null" -> JSNull
      [] d.j = "number" -> Num(d.n)
      [] d.j = "string" -> d.s
      [] d.j = "array" -> Arr([i \in 1..Len(d.xs) |-> ParseDoc(d.xs[i])])
      [] d.j = "object" ->
            [k \in {d.ps[i][1] : i \in 1..Len(d.ps)} |->
                ParseDoc(LastPair(d.ps, k))]

\* JSON.parse(text): throws a SyntaxError on text that is not JSON.
JSONparse(text) ==
    IF text.doc.j \in {"empty", "invalid"}
    THEN [threw |-> TRUE]
    ELSE [threw |-> FALSE, value |-> ParseDoc(text.doc)]

\* Property access o.k of a parsed object: undefined when o has no k.
Get(o, k) == IF k \in DOMAIN o THEN o[k] ELSE Undefined

\* ------------------------------------------------------------------------
\* Cache
\* ------------------------------------------------------------------------
Key(language) == <<"search-", language>>
Keys == {Key(l) : l \in Languages}

\* CACHE_DAYS * MILLISECONDS_PER_DAY in units of the clock.
TTL == (CACHE_DAYS * MILLISECONDS_PER_DAY) \div ClockUnit

\* Fresh with the days of CACHE_DAYS taken for milliseconds.
FreshDaysAsMillis(cachedDate, now) ==
    IF cachedDate.t = "number"
    THEN now < cachedDate.n + (CACHE_DAYS \div ClockUnit)
    ELSE FALSE

\* Fresh with <= in place of <.
FreshInclusive(cachedDate, now) ==
    IF cachedDate.t = "number" THEN now <= cachedDate.n + TTL ELSE FALSE

\* Date.now() < cachedDate + CACHE_DAYS * MILLISECONDS_PER_DAY; with a
\* cachedDate that is not a number the sum is NaN and the test is false.
Fresh(cachedDate, now) ==
    IF cachedDate.t = "number" THEN now < cachedDate.n + TTL ELSE FALSE

\* loadLanguageIndex up to its first await: the lookup in the cache.
\*   readable: FALSE when reading window.localStorage throws.
\* Gives "hit" with the cached data, "miss" (go on to fetch) or "throw".
CacheLookup(st, readable, language, now) ==
    IF ~readable THEN [kind |-> "throw", data |-> Undefined]
    ELSE
    LET cache == st[Key(language)]
    IN  IF cache = NoItem \/ cache = EmptyText
        THEN [kind |-> "miss", data |-> Undefined]
        ELSE
        LET parsed == JSONparse(cache)
        IN  IF parsed.threw \/ parsed.value = JSNull
            THEN [kind |-> "throw", data |-> Undefined]
            ELSE IF Fresh(Get(parsed.value, "time"), now)
                 THEN [kind |-> "hit", data |-> Get(parsed.value, "data")]
                 ELSE [kind |-> "miss", data |-> Undefined]

\* ------------------------------------------------------------------------
\* The index endpoint /js/search-index.php?lang=<language>
\* ------------------------------------------------------------------------
IdFunction == <<"f", ".", "s">>
IdLanguage == LanguagePrefix \o <<".", "a">>
IdLanguages == LanguagePrefix \o <<"s">>
IdNameless == <<"x">>

\* The raw index of a language, as the pairs of its JSON text.
ServerIndex(language) ==
    IF language = "en"
    THEN << <<IdFunction, <<<<"s">>, <<"Get string length">>, <<"refentry">>>>>>,
            <<IdLanguage, <<<<"A">>, <<"Arrays">>, <<"set">>>>>>,
            <<IdLanguages, <<<<"L">>, <<"Languages">>, <<"book">>>>>>,
            <<IdNameless, <<<<>>, <<"">>, <<"">>>>>> >>
    ELSE << <<IdFunction, <<<<"s">>, <<"Comprimento">>, <<"refentry">>>>>>,
            <<<<"c", ".", "m">>,
              <<<<"C", ":", ":", "m">>, <<"Metodo">>, <<"phpdoc:classref">>>>>> >>

\* The JSON text of a raw index: {"<id>": [name, description, tag], ...}.
RawDoc(index) ==
    JObj([i \in 1..Len(index) |->
             <<index[i][1], JArr([j \in 1..Len(index[i][2]) |->
                                     JStr(index[i][2][j])])>>])

NetworkError == [net |-> FALSE, status |-> 0, body |-> EmptyText]
Response(status, body) == [net |-> TRUE, status |-> status, body |-> body]

\* What the fetch of a language's index can come back with.
Responses(language) ==
    { NetworkError,
      Response(200, JSONText(RawDoc(ServerIndex(language)))),
      Response(200, JSONText(JObj(<<>>))),
      Response(200, NotJSONText),
      Response(200, JSONText(JNull)),
      Response(404, NotJSONText),
      Response(404, JSONText(JObj(<<>>))) }

\* Object.entries of the object a JSON text with the pairs ps denotes: one
\* entry per key, in the order in which the keys first come in the text,
\* with the value of the last pair of the key.
ObjectEntries(ps) ==
    LET first == SelectSeq([i \in 1..Len(ps) |-> i],
                     LAMBDA i : \A m \in 1..(i - 1) : ps[m][1] # ps[i][1])
    IN  [n \in 1..Len(first) |->
            <<ps[first[n]][1], ParseDoc(LastPair(ps, ps[first[n]][1]))>>]

\* await response.json(): the body parsed as JSON.  An object is given as
\* Object.entries gives it.
ResponseJson(response) ==
    LET parsed == JSONparse(response.body)
    IN  IF parsed.threw THEN [threw |-> TRUE]
        ELSE IF response.body.doc.j = "object"
        THEN [threw |-> FALSE, isObject |-> TRUE,
              entries |-> ObjectEntries(response.body.doc.ps)]
        ELSE [threw |-> FALSE, isObject |-> FALSE, entries |-> <<>>]

\* ------------------------------------------------------------------------
\* Loader state
\* ------------------------------------------------------------------------
\* initSearchUI calls PHPSearch.init once per page load, and a page can call
\* it again; the calls of the loader follow one another and share the
\* localStorage of the site.
VARIABLES
    now,        \* Date.now(), in days
    store,      \* window.localStorage: key -> null or text
    readable,   \* FALSE: reading window.localStorage throws
    call,       \* the call of loadLanguageIndexWithFallback of this page
    ncalls,     \* the number of calls made so far
    lastWrite,  \* history: per language, the entry last written for it
    fuzzyhound, \* the module variable fuzzyhound: undefined or an engine
    session,    \* how init stands, and the functions init returned
    lastSearch, \* history: the last call of search and what it returned
    ui          \* the search dialog of the page: initSearchModal, initSearchUI

loaderVars == <<now, store, readable, call, ncalls, lastWrite>>
vars == <<now, store, readable, call, ncalls, lastWrite, fuzzyhound, session,
          lastSearch, ui>>

TickStep == TTL \div 2

NoResponse == [net |-> FALSE, status |-> -1, body |-> EmptyText]

\* One run of loadLanguageIndex(language).
\*   outcome: "hit"      returned the cached data
\*            "threw"    threw before any fetch
\*            "pending"  waiting for its fetch
\*            "failed"   the fetch, the parse or the normalizer failed
\*            "loaded"   returned the fetched and normalized items
Attempt(language, lookup) ==
    [language |-> language,
     outcome |-> CASE lookup.kind = "hit" -> "hit"
                   [] lookup.kind = "miss" -> "pending"
                   [] OTHER -> "threw",
     fetched |-> lookup.kind = "miss",
     response |-> NoResponse,
     value |-> lookup.data,
     wrote |-> FALSE, setThrew |-> FALSE]

\* loadLanguageIndex(language) up to the fetch.
loadLanguageIndex(language, st, rd, time) ==
    Attempt(language, CacheLookup(st, rd, language, time))

\* The response of a fetch passes fetch, response.json() and Object.entries
\* without an exception.
Usable(response) ==
    /\ response.net
    /\ ~ResponseJson(response).threw
    /\ ResponseJson(response).isObject

\* FetchReturn without the try block around setItem: the exception of
\* setItem fails the attempt.
FetchReturnNoTry(att, response, setThrows) ==
    LET failed == ~Usable(response)
    IN  [att EXCEPT !.response = response,
                    !.outcome = IF failed \/ setThrows THEN "failed"
                                ELSE "loaded",
                    !.value = IF failed \/ setThrows THEN Undefined
                              ELSE Arr(processIndex(
                                       ResponseJson(response).entries)),
                    !.wrote = ~failed /\ ~setThrows,
                    !.setThrew = ~failed /\ setThrows]

\* loadLanguageIndex from the arrival of the response to its return.
\*   setThrows: localStorage.setItem throws (quota, storage unavailable).
FetchReturn(att, response, setThrows) ==
    LET json == ResponseJson(response)
        failed == ~Usable(response)
        items == IF failed THEN Undefined
                 ELSE Arr(processIndex(json.entries))
    IN  [att EXCEPT !.response = response,
                    !.outcome = IF failed THEN "failed" ELSE "loaded",
                    !.value = items,
                    !.wrote = ~failed /\ ~setThrows,
                    !.setThrew = ~failed /\ setThrows]

\* CacheWrite that keeps an entry the key already has.
CacheWriteIfAbsent(st, att, time) ==
    IF att.outcome = "loaded" /\ ~att.setThrew
       /\ st[Key(att.language)] = NoItem
    THEN [st EXCEPT ![Key(att.language)] =
             JSONstringify([data |-> att.value, time |-> Num(time)])]
    ELSE st

\* CacheWrite that also rewrites the entry, with the time of the read,
\* when the attempt was satisfied from the cache.
CacheWriteOnHit(st, att, time) ==
    IF \/ att.outcome = "loaded" /\ ~att.setThrew
       \/ att.outcome = "hit" /\ att.value # Undefined
    THEN [st EXCEPT ![Key(att.language)] =
             JSONstringify([data |-> att.value, time |-> Num(time)])]
    ELSE st

\* CacheWrite that files the entry under the key of every language.
CacheWriteEveryKey(st, att, time) ==
    IF att.outcome = "loaded" /\ ~att.setThrew
    THEN [k \in Keys |->
             JSONstringify([data |-> att.value, time |-> Num(time)])]
    ELSE st

\* The localStorage.setItem of loadLanguageIndex, in its try block.
CacheWrite(st, att, time) ==
    IF att.outcome = "loaded" /\ ~att.setThrew
    THEN [st EXCEPT ![Key(att.language)] =
             JSONstringify([data |-> att.value, time |-> Num(time)])]
    ELSE st

\* loadLanguageIndexWithFallback whose catch block rethrows at once.
loadLanguageIndexNoFallback(requested, atts, st, rd, time) ==
    LET last == atts[Len(atts)]
        st1 == CacheWrite(st, last, time)
    IN  CASE last.outcome \in {"hit", "loaded"} ->
                [pc |-> "resolved", requested |-> requested,
                 attempts |-> atts, result |-> last.value, store |-> st1]
          [] last.outcome = "pending" ->
                [pc |-> "fetching", requested |-> requested,
                 attempts |-> atts, result |-> Undefined, store |-> st1]
          [] OTHER ->
                [pc |-> "rejected", requested |-> requested,
                 attempts |-> atts, result |-> Undefined, store |-> st1]

\* loadLanguageIndexWithFallback whose catch block retries with "en" as
\* long as fewer than limit attempts were made, whatever the language.
RECURSIVE loadLanguageIndexRetry(_, _, _, _, _, _)
loadLanguageIndexRetry(limit, requested, atts, st, rd, time) ==
    LET last == atts[Len(atts)]
        st1 == CacheWrite(st, last, time)
    IN  CASE last.outcome \in {"hit", "loaded"} ->
                [pc |-> "resolved", requested |-> requested,
                 attempts |-> atts, result |-> last.value, store |-> st1]
          [] last.outcome = "pending" ->
                [pc |-> "fetching", requested |-> requested,
                 attempts |-> atts, result |-> Undefined, store |-> st1]
          [] OTHER ->
                IF Len(atts) < limit
                THEN loadLanguageIndexRetry(limit, requested,
                         Append(atts, loadLanguageIndex("en", st1, rd, time)),
                         st1, rd, time)
                ELSE [pc |-> "rejected", requested |-> requested,
                      attempts |-> atts, result |-> Undefined, store |-> st1]

loadLanguageIndexRetryOnce(requested, atts, st, rd, time) ==
    loadLanguageIndexRetry(2, requested, atts, st, rd, time)

loadLanguageIndexRetryTwice(requested, atts, st, rd, time) ==
    loadLanguageIndexRetry(3, requested, atts, st, rd, time)

\* loadLanguageIndexWithFallback from the point where the last attempt of
\* atts has returned, thrown or started its fetch.  Gives the call and the
\* store it leaves.
RECURSIVE loadLanguageIndexWithFallback(_, _, _, _, _)
loadLanguageIndexWithFallback(requested, atts, st, rd, time) ==
    LET last == atts[Len(atts)]
        st1 == CacheWrite(st, last, time)
    IN  CASE last.outcome \in {"hit", "loaded"} ->
                [pc |-> "resolved", requested |-> requested,
                 attempts |-> atts, result |-> last.value, store |-> st1]
          [] last.outcome = "pending" ->
                [pc |-> "fetching", requested |-> requested,
                 attempts |-> atts, result |-> Undefined, store |-> st1]
          [] OTHER ->
                IF last.language # "en"
                THEN loadLanguageIndexWithFallback(requested,
                         Append(atts, loadLanguageIndex("en", st1, rd, time)),
                         st1, rd, time)
                ELSE [pc |-> "rejected", requested |-> requested,
                      attempts |-> atts, result |-> Undefined, store |-> st1]

\* The call as the page holds it.
CallOf(r) == [pc |-> r.pc, requested |-> r.requested,
              attempts |-> r.attempts, result |-> r.result]

Idle == [pc |-> "idle", requested |-> "none", attempts |-> <<>>,
         result |-> Undefined]

\* The entries a store can hold under the key of a language when the page
\* is loaded: nothing, an empty text, text that is not JSON, the JSON text
\* null, an object without data and time, an object with a time only, and
\* the entry an earlier page load wrote at time 0.
EarlierItems(language) ==
    Arr(processIndex(ResponseJson(Response(200,
            JSONText(RawDoc(ServerIndex(language))))).entries))

EarlierEntry(language) ==
    JSONstringify([data |-> EarlierItems(language), time |-> Num(0)])

InitEntries(language) ==
    { NoItem, EmptyText, NotJSONText, JSONText(JNull),
      JSONText(JObj(<<>>)),
      JSONText(JObj(<< <<"time", JNum(0)>> >>)),
      EarlierEntry(language) }

None == [t |-> "none"]

\* The entry a network load of language writes at time.
Written(att, time) == [t |-> "entry", data |-> att.value, time |-> time]

\* lastWrite after the attempts numbered from..Len(atts) have run at time.
RECURSIVE Record(_, _, _, _)
Record(lw, atts, from, time) ==
    IF from > Len(atts) THEN lw
    ELSE Record(IF atts[from].wrote
                THEN [lw EXCEPT ![atts[from].language] =
                         Written(atts[from], time)]
                ELSE lw,
                atts, from + 1, time)

\* !v for the values a load resolves with: undefined, null and 0 are falsy,
\* every array is truthy, the empty one too.
Falsy(v) == v \in {Undefined, JSNull, Num(0)}

\* new FuzzySearch({source: searchItems, ...}); n tells the engines apart.
FuzzySearch(source, n) == [t |-> "engine", id |-> n, source |-> source]

\* init that takes an empty index for a failed load.
initRejectEmpty(r, ses, fh, n) ==
    CASE r.pc = "fetching" -> [pc |-> "pending", fns |-> ses.fns,
                               fuzzyhound |-> fh]
      [] r.pc = "rejected" -> [pc |-> "rejected", fns |-> ses.fns,
                               fuzzyhound |-> fh]
      [] OTHER ->
            IF Falsy(r.result) \/ r.result = Arr(<<>>)
            THEN [pc |-> "undefined", fns |-> ses.fns, fuzzyhound |-> fh]
            ELSE [pc |-> "function", fns |-> Append(ses.fns, n),
                  fuzzyhound |-> FuzzySearch(r.result, n)]

\* init that catches the failure of the load and returns undefined.
initSwallow(r, ses, fh, n) ==
    CASE r.pc = "fetching" -> [pc |-> "pending", fns |-> ses.fns,
                               fuzzyhound |-> fh]
      [] r.pc = "rejected" -> [pc |-> "undefined", fns |-> ses.fns,
                               fuzzyhound |-> fh]
      [] OTHER ->
            IF Falsy(r.result)
            THEN [pc |-> "undefined", fns |-> ses.fns, fuzzyhound |-> fh]
            ELSE [pc |-> "function", fns |-> Append(ses.fns, n),
                  fuzzyhound |-> FuzzySearch(r.result, n)]

\* init(language) around its await of loadLanguageIndexWithFallback: r is
\* the call, ses and fh the session and the engine before, n the number of
\* this call.
\*   pc: "pending"    waiting for the load
\*       "rejected"   the promise of init is rejected
\*       "undefined"  init logged an error and returned undefined
\*       "function"   init assigned fuzzyhound and returned a search function
\*   fns: for each function returned in this page, the engine init
\*        constructed before returning it.
init(r, ses, fh, n) ==
    CASE r.pc = "fetching" -> [pc |-> "pending", fns |-> ses.fns,
                               fuzzyhound |-> fh]
      [] r.pc = "rejected" -> [pc |-> "rejected", fns |-> ses.fns,
                               fuzzyhound |-> fh]
      [] OTHER ->
            IF Falsy(r.result)
            THEN [pc |-> "undefined", fns |-> ses.fns, fuzzyhound |-> fh]
            ELSE [pc |-> "function", fns |-> Append(ses.fns, n),
                  fuzzyhound |-> FuzzySearch(r.result, n)]

SessionOf(i) == [pc |-> i.pc, fns |-> i.fns]

NoSession == [pc |-> "none", fns |-> <<>>]

\* ------------------------------------------------------------------------
\* Ranker
\* ------------------------------------------------------------------------
\* The base scores the engine gives.
Scores == {5, 5 + Boost}

\* The collection of the engine fh; none when there is no engine.
SourceOf(fh) == IF fh = Undefined THEN Arr(<<>>) ELSE fh.source

\* fuzzyhound.search(query), with output_map "root": a list of new
\* {item, score} objects, each over another item of the source.
IsEngineResult(source, found) ==
    /\ Len(found) <= MaxResults
    /\ \A i \in DOMAIN found :
          /\ \E j \in DOMAIN source.a : found[i].item = source.a[j]
          /\ found[i].score \in Scores
    /\ \A i, j \in DOMAIN found : found[i].item = found[j].item => i = j

\* The lists of at most max results, with base scores of scores, the
\* engine can return for a query.
EngineResults(source, max, scores) ==
    LET items == {source.a[i] : i \in DOMAIN source.a}
        lists(k) == {f \in [1..k -> [item : items, score : scores]] :
                        IsEngineResult(source, f)}
    IN  UNION {lists(k) : k \in 0..max}

\* The least base score alone: the engine scores its results alike.
EvenScores == {s \in Scores : \A t \in Scores : s <= t}

\* The callback of map: boost Language Reference matches.
Boosted(result) ==
    IF StartsWith(result.item.id, LanguagePrefix)
    THEN [result EXCEPT !.score = @ + Boost]
    ELSE result

\* (a, b) => b.score - a.score
compare(a, b) == b.score - a.score

\* Places r before the results it ties with.
InsertBeforeTies(sorted, r) ==
    LET n == Cardinality({i \in DOMAIN sorted : compare(sorted[i], r) < 0})
    IN  SubSeq(sorted, 1, n) \o <<r>> \o SubSeq(sorted, n + 1, Len(sorted))

\* One step of a stable sort: r, which came after all of sorted, goes
\* behind every result the comparator does not put after it.
Insert(sorted, r) ==
    LET n == Cardinality({i \in DOMAIN sorted : compare(sorted[i], r) <= 0})
    IN  SubSeq(sorted, 1, n) \o <<r>> \o SubSeq(sorted, n + 1, Len(sorted))

\* Array.prototype.sort with the comparator: what a stable sort yields.
RECURSIVE sort(_)
sort(rs) ==
    IF rs = <<>> THEN <<>>
    ELSE Insert(sort(SubSeq(rs, 1, Len(rs) - 1)), rs[Len(rs)])

\* search that keeps the boost on the item and adds what the item holds.
searchBoostOnItem(fh, found) ==
    IF fh = Undefined
    THEN [threw |-> TRUE, results |-> <<>>, source |-> Undefined]
    ELSE
    LET held(item) == IF "boost" \in DOMAIN item THEN item.boost ELSE 0
        kept(item) ==
            IF StartsWith(item.id, LanguagePrefix)
            THEN [k \in DOMAIN item \cup {"boost"} |->
                     IF k = "boost" THEN held(item) + Boost ELSE item[k]]
            ELSE item
    IN  [threw |-> FALSE,
         results |-> sort([i \in DOMAIN found |->
                        [item |-> kept(found[i].item),
                         score |-> found[i].score + held(kept(found[i].item))]]),
         source |-> Arr([i \in DOMAIN fh.source.a |-> kept(fh.source.a[i])])]

\* search(query), for the module variable fuzzyhound being fh and
\* fuzzyhound.search(query) returning found: a TypeError when fuzzyhound
\* is undefined, else the results boosted and sorted.  source is the
\* collection of the engine after the call.
search(fh, found) ==
    IF fh = Undefined
    THEN [threw |-> TRUE, results |-> <<>>, source |-> Undefined]
    ELSE [threw |-> FALSE,
          results |-> sort([i \in DOMAIN found |-> Boosted(found[i])]),
          source |-> fh.source]

\* No call of search yet in this page; n calls were made before.
NoSearch(n) == [n |-> n, fn |-> 0, engine |-> 0, found |-> <<>>,
                threw |-> FALSE, results |-> <<>>]

\* ------------------------------------------------------------------------
\* Search dialog
\* ------------------------------------------------------------------------
\* What the user can have typed into the input.
Values == {<<>>, <<"a", " ", "b">>}

\* The limit option of initSearchUI: not given, or a number.
LimitOptions == {Undefined, Num(1)}

\* encodeURIComponent(s), for the characters of this model: letters,
\* digits and - _ . ! ~ * ' ( ) stay, every other character becomes the
\* % codes of its UTF-8 bytes.
RECURSIVE encodeURIComponent(_)
encodeURIComponent(s) ==
    IF s = <<>> THEN <<>>
    ELSE (CASE Head(s) = " " -> <<"%", "2", "0">>
            [] Head(s) = ":" -> <<"%", "3", "A">>
            [] Head(s) = "&" -> <<"%", "2", "6">>
            [] OTHER -> <<Head(s)>>) \o encodeURIComponent(Tail(s))

\* The link of a result row.
ManualLink(language, id) ==
    <<"/manual/">> \o encodeURIComponent(<<language>>) \o <<"/">>
        \o encodeURIComponent(id) \o <<".php">>

\* The page Enter goes to when no result is selected.
SearchPage(language, value) ==
    <<"/search.php?lang=", language, "&q=">> \o encodeURIComponent(value)

NoLocation == <<>>

\* renderResults(results): one row per result, none of them selected.
renderResults(results, language) ==
    [i \in DOMAIN results |->
        [href |-> ManualLink(language, results[i].item.id),
         selected |-> FALSE]]

\* updateSelectedResult(): the row of index selectedIndex (from 0) is
\* aria-selected "true", every other row "false".
updateSelectedResult(rows, selectedIndex) ==
    [i \in DOMAIN rows |-> [rows[i] EXCEPT !.selected = (i - 1 = selectedIndex)]]

Min(a, b) == IF a < b THEN a ELSE b
Max(a, b) == IF a > b THEN a ELSE b

\* results.slice(0, limit)
slice(results, limit) == SubSeq(results, 1, Min(limit, Len(results)))

\* The dialog before initSearchUI has run.  error is the handler the last
\* uncaught TypeError left, returned (history) the number of results the
\* last search of handleInput returned.
NoQuery == <<"none">>

\* Of the backdrop element: open is its class "show", display its style,
\* role and ariaModal its attributes, listening whether a transitionend
\* listener of hide() is registered, transition whether one of its CSS
\* transitions is running.  overflow is the style of the body, focus
\* whether the input has the focus.  Of debounce: timer is whether the
\* timeout of timeoutId is pending, due the milliseconds until it fires,
\* idle (history) the milliseconds since the last input event whose
\* timeout is pending, query (history) the text whose results handleInput
\* rendered last.
NoUI == [language |-> "en", limit |-> DefaultLimit, open |-> FALSE,
         value |-> <<>>, timer |-> FALSE, rows |-> <<>>,
         selectedIndex |-> -1, location |-> NoLocation, error |-> "none",
         returned |-> 0,
         display |-> "none", role |-> "none", ariaModal |-> FALSE,
         overflow |-> "unset", focus |-> FALSE,
         listening |-> FALSE, transition |-> FALSE,
         due |-> 0, idle |-> 0, query |-> NoQuery]

\* show() that leaves the rows and the text of the input.
showKeepList(u) ==
    [u EXCEPT !.display = "block",
              !.ariaModal = TRUE,
              !.role = "dialog",
              !.open = TRUE,
              !.transition = (~u.open) \/ u.transition,
              !.overflow = "hidden",
              !.focus = TRUE]

\* show(): the rows are removed, the backdrop is displayed as a dialog,
\* the page no longer scrolls, the input is focused and emptied.  The
\* class "show" added to a displayed element starts its transition.
show(u) ==
    [u EXCEPT !.rows = <<>>,
              !.display = "block",
              !.ariaModal = TRUE,
              !.role = "dialog",
              !.open = TRUE,
              !.transition = (~u.open) \/ u.transition,
              !.overflow = "hidden",
              !.focus = TRUE,
              !.value = <<>>]

\* hide() that leaves the overflow of the body.
hideKeepOverflow(u) ==
    [u EXCEPT !.open = FALSE,
              !.ariaModal = FALSE,
              !.role = "none",
              !.listening = TRUE,
              !.transition = (u.open /\ u.display = "block") \/ u.transition]

\* hide(): the class and the attributes are removed, the page scrolls
\* again, and a listener is registered that sets display none at the next
\* transitionend.  The class removed from a displayed element starts its
\* transition; on an element that has not the class nothing starts.
hide(u) ==
    [u EXCEPT !.open = FALSE,
              !.ariaModal = FALSE,
              !.role = "none",
              !.overflow = "auto",
              !.listening = TRUE,
              !.transition = (u.open /\ u.display = "block") \/ u.transition]

\* The listener of hide(), at a transitionend of the backdrop.  An element
\* that is no longer displayed has neither a transition nor the focus.
onTransitionEnd(u) ==
    IF u.listening
    THEN [u EXCEPT !.display = "none", !.listening = FALSE,
                   !.transition = FALSE, !.focus = FALSE]
    ELSE [u EXCEPT !.transition = FALSE]

\* The time between two states of the dialog's clock.
TimeStep == DEBOUNCE_DELAY \div 2

\* debounce that sets a timeout only when none is pending.
debounceNoRestart(u) ==
    IF u.timer THEN u
    ELSE [u EXCEPT !.timer = TRUE, !.due = DEBOUNCE_DELAY, !.idle = 0]

\* The function debounce(handleInput, DEBOUNCE_DELAY) returns, called:
\* clearTimeout(timeoutId), and a new timeout of DEBOUNCE_DELAY.
debounce(u) ==
    [u EXCEPT !.timer = TRUE, !.due = DEBOUNCE_DELAY, !.idle = 0]

\* handleKeyDown without the bounds of ArrowDown and ArrowUp.
handleKeyDownNoBounds(u, key) ==
    CASE key = "ArrowDown" ->
            [u EXCEPT !.selectedIndex = u.selectedIndex + 1,
                      !.rows = updateSelectedResult(u.rows,
                                                    u.selectedIndex + 1)]
      [] key = "ArrowUp" ->
            [u EXCEPT !.selectedIndex = u.selectedIndex - 1,
                      !.rows = updateSelectedResult(u.rows,
                                                    u.selectedIndex - 1)]
      [] OTHER -> u

\* handleKeyDown(event), for the keys it has a case for.  The rows are
\* numbered from 1 here, selectedIndex from 0 as in the code.
handleKeyDown(u, key) ==
    CASE key = "ArrowDown" ->
            LET i == Min(u.selectedIndex + 1, Len(u.rows) - 1)
            IN  [u EXCEPT !.selectedIndex = i,
                          !.rows = updateSelectedResult(u.rows, i)]
      [] key = "ArrowUp" ->
            LET i == Max(u.selectedIndex - 1, -1)
            IN  [u EXCEPT !.selectedIndex = i,
                          !.rows = updateSelectedResult(u.rows, i)]
      [] key = "Enter" ->
            IF u.selectedIndex # -1
            THEN IF u.selectedIndex + 1 \in DOMAIN u.rows
                 THEN [u EXCEPT !.location = u.rows[u.selectedIndex + 1].href]
                 ELSE [u EXCEPT !.error = "handleKeyDown"]
            ELSE [u EXCEPT !.location = SearchPage(u.language, u.value)]
      [] key = "Escape" -> [u EXCEPT !.selectedIndex = -1]

\* handleInput that renders every result.
handleInputNoSlice(u, fh, found) ==
    LET r == search(fh, found)
    IN  IF r.threw THEN [u EXCEPT !.error = "handleInput"]
        ELSE [u EXCEPT !.rows = renderResults(r.results, u.language),
                       !.selectedIndex = -1,
                       !.returned = Len(r.results),
                       !.query = u.value]

\* handleInput(event), for the module variable fuzzyhound being fh and the
\* engine returning found, with the text that is in the input when the
\* handler runs: the TypeError of search leaves the handler,
\* else the first limit results are rendered and no row is selected.
handleInput(u, fh, found) ==
    LET r == search(fh, found)
    IN  IF r.threw THEN [u EXCEPT !.error = "handleInput"]
        ELSE [u EXCEPT !.rows = renderResults(slice(r.results, u.limit),
                                              u.language),
                       !.selectedIndex = -1,
                       !.returned = Len(r.results),
                       !.query = u.value]

Init ==
    /\ now = 0
    /\ readable \in BOOLEAN
    /\ store \in [Keys -> UNION {InitEntries(l) : l \in Languages}]
    /\ \A l \in Languages : store[Key(l)] \in InitEntries(l)
    /\ ~readable => \A k \in Keys : store[k] = NoItem
    /\ call = Idle
    /\ ncalls = 0
    /\ fuzzyhound = Undefined
    /\ session = NoSession
    /\ lastSearch = NoSearch(0)
    /\ ui = NoUI
    /\ lastWrite = [l \in Languages |->
           IF store[Key(l)] = EarlierEntry(l)
           THEN [t |-> "entry", data |-> EarlierItems(l), time |-> 0]
           ELSE None]

\* PHPSearch.init(language) is called: loadLanguageIndexWithFallback runs
\* up to its first fetch, or settles from the cache and init goes on.
\*   newPage: the call is the one of a page just loaded (the module state
\*   is new); otherwise the page calls init once more.
Called(language, newPage) ==
    /\ call.pc \in {"idle", "resolved", "rejected"}
    /\ ncalls < MaxCalls
    /\ ncalls' = ncalls + 1
    /\ LET r == loadLanguageIndexWithFallback(language,
                    <<loadLanguageIndex(language, store, readable, now)>>,
                    store, readable, now)
           i == init(r, IF newPage THEN NoSession ELSE session,
                     IF newPage THEN Undefined ELSE fuzzyhound, ncalls + 1)
       IN  /\ call' = CallOf(r)
           /\ store' = r.store
           /\ lastWrite' = Record(lastWrite, r.attempts, 1, now)
           /\ fuzzyhound' = i.fuzzyhound
           /\ session' = SessionOf(i)
    /\ lastSearch' = IF newPage THEN NoSearch(lastSearch.n) ELSE lastSearch
    /\ UNCHANGED <<now, readable>>

Load(language, newPage) ==
    /\ Called(language, newPage)
    /\ UNCHANGED ui

\* The fetch of the call completes with response; the rest of
\* loadLanguageIndex runs, and on failure the fallback.
Fetched(response, setThrows) ==
    /\ call.pc = "fetching"
    /\ LET atts == call.attempts
           n == Len(atts)
           done == FetchReturn(atts[n], response, setThrows)
           r == loadLanguageIndexWithFallback(call.requested,
                    [atts EXCEPT ![n] = done], store, readable, now)
           i == init(r, session, fuzzyhound, ncalls)
       IN  /\ setThrows => Usable(response)
           /\ call' = CallOf(r)
           /\ store' = r.store
           /\ lastWrite' = Record(lastWrite, r.attempts, n, now)
           /\ fuzzyhound' = i.fuzzyhound
           /\ session' = SessionOf(i)
    /\ UNCHANGED <<now, readable, ncalls, lastSearch, ui>>

\* The fetch completes with one of the responses of the endpoint.
FetchDone(response, setThrows) ==
    /\ call.pc = "fetching"
    /\ response \in Responses(call.attempts[Len(call.attempts)].language)
    /\ Fetched(response, setThrows)

\* Time passes.
Tick ==
    /\ now < MaxTicks * TickStep
    /\ now' = now + TickStep
    /\ UNCHANGED <<store, readable, call, ncalls, lastWrite, fuzzyhound,
                   session, lastSearch, ui>>

\* search is called: through function k that init returned, or as
\* PHPSearch.search (k = 0).  found is what the engine returns.
Search(k, found) ==
    /\ lastSearch.n < MaxSearches
    /\ k \in {0} \cup DOMAIN session.fns
    /\ IsEngineResult(SourceOf(fuzzyhound), found)
    /\ LET r == search(fuzzyhound, found)
       IN  /\ lastSearch' = [n |-> lastSearch.n + 1, fn |-> k,
                             engine |-> IF r.threw THEN 0 ELSE fuzzyhound.id,
                             found |-> found, threw |-> r.threw,
                             results |-> r.results]
           /\ fuzzyhound' = IF r.threw THEN fuzzyhound
                            ELSE [fuzzyhound EXCEPT !.source = r.source]
    /\ UNCHANGED <<loaderVars, session, ui>>

Next ==
    \/ \E l \in Languages, p \in BOOLEAN : Load(l, p)
    \/ \E b \in BOOLEAN :
          \E r \in UNION {Responses(l) : l \in Languages} : FetchDone(r, b)
    \/ Tick

Spec == Init /\ [][Next]_vars

\* A page is loaded: initSearchUI({language, limit}) registers the
\* listeners of the input and calls PHPSearch.init(language).
initSearchUI(language, limit) ==
    /\ ncalls = 0
    /\ Called(language, TRUE)
    /\ ui' = [NoUI EXCEPT !.language = language,
                          !.limit = IF limit = Undefined THEN DefaultLimit
                                    ELSE limit.n]

\* The page is there and has not been left.
OnPage == call.pc # "idle" /\ ui.location = NoLocation

\* A click on a search button, which the displayed dialog covers.
ShowClick ==
    /\ OnPage
    /\ ~ui.open \/ ui.display = "none"
    /\ ui' = show(ui)
    /\ UNCHANGED <<loaderVars, fuzzyhound, session, lastSearch>>

\* A click on the close button of the dialog.
HideClick ==
    /\ OnPage
    /\ ui.open /\ ui.display = "block"
    /\ ui' = hide(ui)
    /\ UNCHANGED <<loaderVars, fuzzyhound, session, lastSearch>>

\* Where a click in the displayed backdrop can land: on the backdrop
\* itself, on the dialog inside it or on the input of the dialog.
ClickTargets == {"backdrop", "dialog", "input"}

\* A click in the displayed backdrop: its listener hides the dialog when
\* the target is the backdrop itself.  The click gives the focus to the
\* input or takes it away.
BackdropClick(target) ==
    /\ OnPage
    /\ ui.open /\ ui.display = "block"
    /\ ui' = IF target = "backdrop" THEN hide(ui)
             ELSE [ui EXCEPT !.focus = (target = "input")]
    /\ UNCHANGED <<loaderVars, fuzzyhound, session, lastSearch>>

\* Escape goes down with the focus outside the input, the dialog open or
\* not: the listener of the document calls hide().
DocumentEscape ==
    /\ OnPage
    /\ ~ui.open \/ ~ui.focus
    /\ ui' = hide(ui)
    /\ UNCHANGED <<loaderVars, fuzzyhound, session, lastSearch>>

\* A transition of the backdrop ends: the browser delivers transitionend.
TransitionEnd ==
    /\ OnPage
    /\ ui.transition
    /\ ui' = onTransitionEnd(ui)
    /\ UNCHANGED <<loaderVars, fuzzyhound, session, lastSearch>>

\* The user changes the text of the input: debouncedHandleInput clears the
\* timer and sets it anew.
InputEvent(v) ==
    /\ OnPage
    /\ ui.open /\ ui.display = "block" /\ ui.focus
    /\ v # ui.value
    /\ ui' = debounce([ui EXCEPT !.value = v])
    /\ UNCHANGED <<loaderVars, fuzzyhound, session, lastSearch>>

\* Time passes while a timeout is pending and not yet due.
Elapse ==
    /\ OnPage
    /\ ui.timer /\ ui.due > 0
    /\ ui' = [ui EXCEPT !.due = Max(ui.due - TimeStep, 0),
                        !.idle = Min(ui.idle + TimeStep, DEBOUNCE_DELAY)]
    /\ UNCHANGED <<loaderVars, fuzzyhound, session, lastSearch>>

\* The timer of debounce fires: handleInput runs.
TimerFire(found) ==
    /\ OnPage
    /\ ui.timer /\ ui.due = 0
    /\ IsEngineResult(SourceOf(fuzzyhound), found)
    /\ ui' = [handleInput(ui, fuzzyhound, found) EXCEPT !.timer = FALSE,
                                                       !.idle = 0]
    /\ UNCHANGED <<loaderVars, fuzzyhound, session, lastSearch>>

KeyNames == {"ArrowDown", "ArrowUp", "Enter", "Escape"}

\* A key goes down in the input: handleKeyDown runs, and for Escape the
\* listener of the document hides the dialog.
KeyDown(key) ==
    /\ OnPage
    /\ ui.open /\ ui.display = "block" /\ ui.focus
    /\ LET u == handleKeyDown(ui, key)
       IN  ui' = IF key = "Escape" THEN hide(u) ELSE u
    /\ UNCHANGED <<loaderVars, fuzzyhound, session, lastSearch>>

\* The dialog: a page loaded in a browser whose localStorage is empty or
\* holds both indexes, and what the user does in it.
UIInit ==
    /\ Init
    /\ readable
    /\ \/ \A l \in Languages : store[Key(l)] = NoItem
       \/ \A l \in Languages : store[Key(l)] = EarlierEntry(l)

UINext ==
    \/ \E l \in Languages, limit \in LimitOptions : initSearchUI(l, limit)
    \/ \E b \in BOOLEAN :
          \E r \in UNION {Responses(l) : l \in Languages} : FetchDone(r, b)
    \/ ShowClick
    \/ HideClick
    \/ \E v \in Values : InputEvent(v)
    \/ Elapse
    \/ \E found \in EngineResults(SourceOf(fuzzyhound), MaxFound, EvenScores) :
          TimerFire(found)
    \/ \E key \in KeyNames : KeyDown(key)

UISpec == UIInit /\ [][UINext]_vars

\* The ranker: a page whose init(language) found the index in the cache
\* and constructed its engine; search is called on it.
RankInit ==
    \E l \in Languages :
       LET st == [k \in Keys |->
                     IF k = Key("en") THEN EarlierEntry("en")
                     ELSE EarlierEntry("xx")]
           r == loadLanguageIndexWithFallback(l,
                    <<loadLanguageIndex(l, st, TRUE, 0)>>, st, TRUE, 0)
           i == init(r, NoSession, Undefined, 1)
       IN  /\ now = 0
           /\ readable = TRUE
           /\ store = r.store
           /\ call = CallOf(r)
           /\ ncalls = 1
           /\ lastWrite = [m \in Languages |->
                  [t |-> "entry", data |-> EarlierItems(m), time |-> 0]]
           /\ fuzzyhound = i.fuzzyhound
           /\ session = SessionOf(i)
           /\ lastSearch = NoSearch(0)
           /\ ui = NoUI

RankNext ==
    \E k \in 0..1 :
       \E found \in EngineResults(SourceOf(fuzzyhound), MaxResults, Scores) :
          Search(k, found)

RankSpec == RankInit /\ [][RankNext]_vars

\* Sessions: init is called in a browser with an empty localStorage, one
\* or more times in a page, and search is called through the functions
\* it returned.
SessionInit ==
    /\ Init
    /\ readable
    /\ \A k \in Keys : store[k] = NoItem

SessionNext ==
    \/ \E l \in Languages, p \in BOOLEAN : Load(l, p)
    \/ \E b \in BOOLEAN :
          \E r \in UNION {Responses(l) : l \in Languages} : FetchDone(r, b)
    \/ \E k \in 0..MaxCalls :
          \E found \in EngineResults(SourceOf(fuzzyhound), 1, Scores) :
             Search(k, found)

SessionSpec == SessionInit /\ [][SessionNext]_vars

\* The dialog's backdrop: a page whose init(language) found the index in
\* the cache, and the clicks, keys and transitionend events of the dialog.
DialogInit ==
    \E l \in Languages :
       LET st == [k \in Keys |->
                     IF k = Key("en") THEN EarlierEntry("en")
                     ELSE EarlierEntry("xx")]
           r == loadLanguageIndexWithFallback(l,
                    <<loadLanguageIndex(l, st, TRUE, 0)>>, st, TRUE, 0)
           i == init(r, NoSession, Undefined, 1)
       IN  /\ now = 0
           /\ readable = TRUE
           /\ store = r.store
           /\ call = CallOf(r)
           /\ ncalls = 1
           /\ lastWrite = [m \in Languages |->
                  [t |-> "entry", data |-> EarlierItems(m), time |-> 0]]
           /\ fuzzyhound = i.fuzzyhound
           /\ session = SessionOf(i)
           /\ lastSearch = NoSearch(0)
           /\ ui = [NoUI EXCEPT !.language = l]

\* The timer fires in the page of DialogInit.
TimerFires ==
    \E found \in EngineResults(SourceOf(fuzzyhound), 1, EvenScores) :
       TimerFire(found)

DialogNext ==
    \/ ShowClick
    \/ HideClick
    \/ \E target \in ClickTargets : BackdropClick(target)
    \/ DocumentEscape
    \/ TransitionEnd
    \/ \E v \in Values : InputEvent(v)
    \/ Elapse
    \/ TimerFires
    \/ \E key \in KeyNames : KeyDown(key)

DialogSpec == DialogInit /\ [][DialogNext]_vars

\* A transition of the backdrop takes a finite time: the browser delivers
\* its transitionend.  Time passes, and the event loop runs the callback
\* of a timeout that is due.
DialogLive ==
    /\ DialogSpec
    /\ WF_vars(TransitionEnd)
    /\ WF_vars(Elapse)
    /\ WF_vars(TimerFires)

\* The fetch of the page completes, one way or another.
FetchCompletes ==
    \E b \in BOOLEAN :
       \E r \in UNION {Responses(l) : l \in Languages} : FetchDone(r, b)

\* Typing while the index loads: a page is loaded in a browser with an
\* empty localStorage, the user opens the dialog and types while the fetch
\* of init is on its way or after it.
TypingInit ==
    /\ Init
    /\ readable
    /\ \A k \in Keys : store[k] = NoItem

TypingNext ==
    \/ \E l \in Languages, limit \in LimitOptions : initSearchUI(l, limit)
    \/ FetchCompletes
    \/ ShowClick
    \/ \E v \in Values : InputEvent(v)
    \/ Elapse
    \/ TimerFires

TypingSpec == TypingInit /\ [][TypingNext]_vars

\* Time passes and the event loop runs the callback of a timeout that is
\* due; the fetch settles, and the continuation of init runs.
TypingLive ==
    /\ TypingSpec
    /\ WF_vars(Elapse)
    /\ WF_vars(TimerFires)
    /\ WF_vars(FetchCompletes)

\* The normalizer: what the tuple of an entry of a raw index can be.  The
\* name is absent, empty, plain, or has one or more "::" or a ":::"; the
\* tag is one of the switch, one that differs from them in case only,
\* another one, or absent.
RawTuples ==
    { <<>>,
      <<<<>>, <<"d">>, <<"refentry">>>>,
      <<<<"s">>, <<"d">>, <<"refentry">>>>,
      <<<<"s">>, <<>>, <<"phpdoc:varentry">>>>,
      <<<<"C", ":", ":", "m">>, <<"d">>, <<"phpdoc:exceptionref">>>>,
      <<<<"C", ":", ":", "m">>, <<"d">>, <<"phpdoc:classref">>>>,
      <<<<"A", ":", ":", "B", ":", ":", "c">>, <<"d">>, <<"set">>>>,
      <<<<"a", ":", ":", ":", "b">>, <<"d">>, <<"book">>>>,
      <<<<"s">>, <<"d">>, <<"reference">>>>,
      <<<<"s">>, <<"d">>, <<"Refentry">>>>,
      <<<<"s">>, <<"d">>, <<"unknown-tag">>>>,
      <<<<"s">>, <<"d">>>> }

\* The ids of the entries; a JSON text can have a key more than once.
RawIds == {<<"a">>, <<"b">>}

\* The raw indexes of at most MaxEntries pairs.
RawIndexes ==
    UNION {[1..n -> RawIds \X RawTuples] : n \in 0..MaxEntries}

\* The fetch of the first page completes with the raw index as its body.
FetchedIndex ==
    /\ ncalls = 1
    /\ call.pc = "fetching"
    /\ \E index \in RawIndexes :
          Fetched(Response(200, JSONText(RawDoc(index))), FALSE)

\* Pages are loaded in a browser with an empty localStorage, the endpoint
\* answers with a raw index, and a later page finds its items in the
\* cache.
NormInit ==
    /\ Init
    /\ readable
    /\ \A k \in Keys : store[k] = NoItem

NormNext ==
    \/ \E l \in Languages : Load(l, TRUE)
    \/ FetchedIndex

NormSpec == NormInit /\ [][NormNext]_vars

TypeOK ==
    /\ now \in 0..(MaxTicks * TickStep)
    /\ readable \in BOOLEAN
    /\ ncalls \in 0..MaxCalls
    /\ call.pc \in {"idle", "fetching", "resolved", "rejected"}
    /\ fuzzyhound = Undefined \/ fuzzyhound.id \in 1..ncalls
    /\ session.pc \in {"none", "pending", "rejected", "undefined", "function"}
    /\ \A i \in DOMAIN session.fns : session.fns[i] \in 1..ncalls
    /\ lastSearch.n \in 0..MaxSearches
    /\ ui.selectedIndex \in -1..MaxFound
    /\ ui.limit \in {DefaultLimit} \cup {o.n : o \in LimitOptions \ {Undefined}}
    /\ Len(ui.rows) <= MaxFound
    /\ ui.error \in {"none", "handleInput", "handleKeyDown"}

\* ------------------------------------------------------------------------
\* Properties of the loader
\* ------------------------------------------------------------------------
Attempts == call.attempts
Started == call.pc # "idle"
Broke(a) == a.outcome \in {"threw", "failed"}

\* The items the normalizer makes of the body of a response.
ItemsOf(response) == Arr(processIndex(ResponseJson(response).entries))

\* The data of the entry the store holds for a language.
StoredData(st, language) ==
    Get(JSONparse(st[Key(language)]).value, "data")

\* The attempts that ran their cache lookup in the step.
NewAttempts ==
    IF ncalls' # ncalls THEN DOMAIN call'.attempts
    ELSE {i \in DOMAIN call'.attempts : i > Len(call.attempts)}

\* The store holds, under the key of language, a JSON object whose time is
\* a number less than 14 days before time.
HoldsFreshEntry(st, language, time) ==
    /\ st[Key(language)].t = "text"
    /\ st[Key(language)].doc.j = "object"
    /\ \E i \in DOMAIN st[Key(language)].doc.ps :
          /\ st[Key(language)].doc.ps[i][1] = "time"
          /\ st[Key(language)].doc.ps[i][2].j = "number"
          /\ time < st[Key(language)].doc.ps[i][2].n + 14

\* C1: when load(L), L other than "en", sees its attempt for L fail, it
\* makes an attempt for "en"; if that one succeeds the call resolves with
\* exactly its items (the cached "en" data or the normalized "en" index),
\* and if that one fails too the call rejects.
C1_FallbackToEnglish ==
    (Started /\ call.requested # "en" /\ Broke(Attempts[1])) =>
        /\ Len(Attempts) = 2
        /\ Attempts[2].language = "en"
        /\ Attempts[2].outcome = "loaded" =>
              /\ call.pc = "resolved"
              /\ call.result = ItemsOf(Attempts[2].response)
        /\ Attempts[2].outcome = "hit" =>
              /\ call.pc = "resolved"
              /\ call.result = StoredData(store, "en")
        /\ Broke(Attempts[2]) => call.pc = "rejected"

C1_Witness ==
    /\ call.requested = "xx"
    /\ Len(Attempts) = 2
    /\ Attempts[1].outcome = "failed"
    /\ Attempts[2].outcome = "loaded"
    /\ call.pc = "resolved"
    /\ call.result = EarlierItems("en")

\* C2 (as claimed): a call of load rejects only after a fetch for the
\* requested language was issued and failed and, for a language other than
\* "en", a fetch for "en" was issued and failed; no state of the store
\* makes it reject.
C2_RejectsOnlyAfterFetches ==
    call.pc = "rejected" =>
        /\ \E i \in DOMAIN Attempts :
              /\ Attempts[i].language = call.requested
              /\ Attempts[i].fetched
              /\ Attempts[i].outcome = "failed"
        /\ call.requested # "en" =>
              \E i \in DOMAIN Attempts :
                  /\ Attempts[i].language = "en"
                  /\ Attempts[i].fetched
                  /\ Attempts[i].outcome = "failed"

\* C3: when load(language) starts while the store holds under
\* "search-<language>" an entry with now < time + 14 days, the call
\* resolves with the data of that entry after a single attempt that issued
\* no fetch.
C3_CacheHitNoNetwork ==
    [][(ncalls' # ncalls /\ HoldsFreshEntry(store, call'.requested, now)) =>
          /\ call'.pc = "resolved"
          /\ Len(call'.attempts) = 1
          /\ ~call'.attempts[1].fetched
          /\ call'.result = StoredData(store, call'.requested)]_vars

C3_Witness ==
    /\ call.pc = "resolved"
    /\ Len(Attempts) = 1
    /\ Attempts[1].outcome = "hit"
    /\ ~Attempts[1].fetched
    /\ call.result = EarlierItems(call.requested)
    /\ now > 0

\* C4: once a network load has written the entry of language L at time t,
\* every attempt for L that starts before t + 14 days returns exactly the
\* items written, and every attempt for L that starts at or after
\* t + 14 days returns nothing from the cache and issues a fetch.
C4_RoundTripAndExpiry ==
    [][\A i \in NewAttempts :
          LET a == call'.attempts[i]
              w == lastWrite[a.language]
          IN  w # None =>
                 IF now < w.time + 14
                 THEN a.outcome = "hit" /\ a.value = w.data /\ ~a.fetched
                 ELSE a.outcome # "hit" /\ a.fetched]_vars

C4_Witness ==
    /\ ncalls = 2
    /\ Attempts[1].outcome = "hit"
    /\ lastWrite[call.requested] # None
    /\ lastWrite[call.requested].time > 0
    /\ now > lastWrite[call.requested].time
    /\ call.result = lastWrite[call.requested].data
    /\ Len(call.result.a) > 0

\* C5: an attempt whose fetch and parse succeed and whose setItem throws
\* still returns the fetched and normalized items: it is the last attempt
\* of its call and the call resolves with these items.
C5_WriteFailureSwallowed ==
    \A i \in DOMAIN Attempts :
        Attempts[i].setThrew =>
            /\ Attempts[i].outcome = "loaded"
            /\ i = Len(Attempts)
            /\ call.pc = "resolved"
            /\ call.result = ItemsOf(Attempts[i].response)

C5_Witness ==
    /\ call.requested = "xx"
    /\ Len(Attempts) = 1
    /\ Attempts[1].setThrew
    /\ call.pc = "resolved"
    /\ Len(call.result.a) > 0
    /\ store[Key("xx")] = NoItem

\* C6: when an attempt for language L returns the items of a successful
\* fetch at time t and its setItem does not throw, the store then holds
\* under "search-L" the entry {data: these items, time: t}, whatever it
\* held before, and the entries of the other keys are as before.
C6_WriteThrough ==
    [][\A i \in DOMAIN call'.attempts :
          (/\ ncalls' = ncalls
           /\ call'.attempts[i].wrote
           /\ ~call.attempts[i].wrote) =>
              /\ store'[Key(call'.attempts[i].language)].t = "text"
              /\ ~JSONparse(store'[Key(call'.attempts[i].language)]).threw
              /\ JSONparse(store'[Key(call'.attempts[i].language)]).value
                    = [data |-> call'.attempts[i].value, time |-> Num(now)]
              /\ call'.attempts[i].value = ItemsOf(call'.attempts[i].response)
              /\ call'.result = call'.attempts[i].value
              /\ \A l \in Languages \ {call'.attempts[i].language} :
                    store'[Key(l)] = store[Key(l)]]_vars

C6_Witness ==
    /\ Len(Attempts) = 2
    /\ Attempts[2].wrote
    /\ now > 0
    /\ store[Key("en")] = JSONstringify([data |-> call.result,
                                         time |-> Num(now)])
    /\ Len(call.result.a) > 0

\* C7: an attempt that is satisfied from the cache leaves the store as it
\* was, and it happens less than 14 days after the network load that wrote
\* the entry.
C7_HitLeavesEntry ==
    [][\A i \in NewAttempts :
          call'.attempts[i].outcome = "hit" =>
              /\ store' = store
              /\ LET w == lastWrite[call'.attempts[i].language]
                 IN  w # None => (now < w.time + 14 /\ lastWrite' = lastWrite)]_vars

C7_Witness ==
    /\ ncalls = 2
    /\ Len(Attempts) = 1
    /\ Attempts[1].outcome = "hit"
    /\ now > 0
    /\ store[Key(call.requested)] = EarlierEntry(call.requested)

\* C8: a call makes at most 2 attempts, the first for the requested
\* language and the second for "en", issues at most 2 fetches, and is
\* settled whenever none of its fetches is outstanding.
C8_BoundedRetry ==
    Started =>
        /\ Len(Attempts) \in {1, 2}
        /\ Attempts[1].language = call.requested
        /\ Len(Attempts) = 2 => Attempts[2].language = "en"
        /\ Cardinality({i \in DOMAIN Attempts : Attempts[i].fetched}) <= 2
        /\ \A i \in DOMAIN Attempts :
              Attempts[i].outcome = "pending" => i = Len(Attempts)
        /\ (Attempts[Len(Attempts)].outcome # "pending")
              <=> (call.pc \in {"resolved", "rejected"})

C8_Witness ==
    /\ call.pc = "rejected"
    /\ Len(Attempts) = 2
    /\ Attempts[1].fetched
    /\ Attempts[2].fetched

\* C9: a call for "en" makes one attempt only; when that attempt fails the
\* call rejects, with no second attempt and no second fetch.
C9_NoFallbackFromEnglish ==
    (Started /\ call.requested = "en") =>
        /\ Len(Attempts) = 1
        /\ Broke(Attempts[1]) => call.pc = "rejected"

C9_Witness ==
    /\ call.requested = "en"
    /\ call.pc = "rejected"
    /\ Len(Attempts) = 1
    /\ Attempts[1].fetched
    /\ Attempts[1].outcome = "failed"

\* A network error, a body that is not JSON, or an HTTP error status.
FetchFailure(response) ==
    \/ ~response.net
    \/ response.body.doc.j \in {"empty", "invalid"}
    \/ response.status >= 400

\* C10 (as claimed): for a requested language other than "en", a fetch
\* that ends in a network error, a body that is not JSON or an HTTP error
\* status is followed by an attempt for "en", and nothing made from the
\* failed response is returned or written to the cache.
C10_EveryFailureFallsBack ==
    (/\ Started
     /\ call.requested # "en"
     /\ Attempts[1].fetched
     /\ Attempts[1].outcome # "pending"
     /\ FetchFailure(Attempts[1].response)) =>
        /\ Len(Attempts) = 2
        /\ Attempts[2].language = "en"
        /\ Attempts[1].value = Undefined
        /\ ~Attempts[1].wrote

\* ------------------------------------------------------------------------
\* Properties of init
\* ------------------------------------------------------------------------
\* The first attempt of the call got an index of zero items, from the cache
\* or from the network.
EmptyIndex ==
    /\ Started
    /\ Attempts[1].outcome \in {"hit", "loaded"}
    /\ Attempts[1].value = Arr(<<>>)

\* C11: an index of the requested language that normalizes to zero items
\* is not an error: the load resolves with the empty list after that one
\* attempt, without an attempt for "en", and init constructs its engine
\* over the empty collection and returns a search function.
C11_EmptyIndexIsNoError ==
    EmptyIndex =>
        /\ call.pc = "resolved"
        /\ call.result = Arr(<<>>)
        /\ Len(Attempts) = 1
        /\ session.pc = "function"
        /\ fuzzyhound = FuzzySearch(Arr(<<>>), ncalls)
        /\ session.fns[Len(session.fns)] = ncalls

C11_Witness ==
    /\ EmptyIndex
    /\ call.requested = "xx"
    /\ Attempts[1].fetched
    /\ fuzzyhound = FuzzySearch(Arr(<<>>), ncalls)

\* C16: when the requested language and "en" both fail, init ends rejected:
\* the failure reaches the caller of init, init constructs no engine and
\* returns no function, and every attempt of the call has failed, the last
\* of them for "en".
C16_FatalFailureSignalled ==
    call.pc = "rejected" =>
        /\ session.pc = "rejected"
        /\ fuzzyhound = Undefined \/ fuzzyhound.id < ncalls
        /\ \A i \in DOMAIN session.fns : session.fns[i] < ncalls
        /\ \A i \in DOMAIN Attempts : Broke(Attempts[i])
        /\ Attempts[Len(Attempts)].language = "en"
        /\ Len(Attempts) <= 2

\* C16, second part: a call that was rejected makes no further attempt.
C16_NoFurtherAttempt ==
    [][(call.pc = "rejected" /\ ncalls' = ncalls) =>
            (call' = call /\ fuzzyhound' = fuzzyhound /\ session' = session)]_vars

C16_Witness ==
    /\ call.pc = "rejected"
    /\ call.requested = "xx"
    /\ Len(Attempts) = 2
    /\ Attempts[1].fetched
    /\ Attempts[2].fetched
    /\ session.pc = "rejected"

\* ------------------------------------------------------------------------
\* Properties of the ranker
\* ------------------------------------------------------------------------
\* search was called and returned.
Searched == lastSearch.n > 0 /\ ~lastSearch.threw
Found == lastSearch.found
Results == lastSearch.results

\* The result for item stands before the one for other in rs.
Before(rs, item, other) ==
    \E a, b \in DOMAIN rs :
       a < b /\ rs[a].item = item /\ rs[b].item = other

LanguageDot == LanguagePrefix \o <<".">>

\* C12 (as claimed): search adds 10 to the score of each result whose item
\* id starts with "language" and leaves the other scores as they were, and
\* of two results with the same base score of which one id starts with
\* "language." and the other does not, the first stands above the other
\* in the list returned.
C12_BoostRanksLanguageFirst ==
    Searched =>
        /\ \A i \in DOMAIN Found :
              \E j \in DOMAIN Results :
                 /\ Results[j].item = Found[i].item
                 /\ Results[j].score = Found[i].score +
                       (IF StartsWith(Found[i].item.id, LanguagePrefix)
                        THEN 10 ELSE 0)
        /\ \A i, j \in DOMAIN Found :
              (/\ Found[i].score = Found[j].score
               /\ StartsWith(Found[i].item.id, LanguageDot)
               /\ ~StartsWith(Found[j].item.id, LanguageDot)) =>
                  Before(Results, Found[i].item, Found[j].item)

\* C13: the list search returns is in non-increasing order of boosted
\* score, and two results of equal boosted score stand in the order in
\* which the engine returned them.
C13_StableDescendingSort ==
    Searched =>
        \A i, j \in DOMAIN Results :
           i < j =>
              /\ Results[i].score >= Results[j].score
              /\ Results[i].score = Results[j].score =>
                    Before(Found, Results[i].item, Results[j].item)

\* Engine order [A, B, C] with boosted scores [s, s, t], t > s, comes out
\* as [C, A, B].
C13_Witness ==
    /\ Searched
    /\ Len(Found) = 3
    /\ Boosted(Found[1]).score = Boosted(Found[2]).score
    /\ Boosted(Found[3]).score > Boosted(Found[1]).score
    /\ Results = <<Boosted(Found[3]), Boosted(Found[1]), Boosted(Found[2])>>

\* C14: in every call of search that returns, each result is over an item
\* of the list the engine returned for this call, its score is the base
\* score of this call with the boost added once or not at all, whatever
\* calls came before, and the items of the collection are as they were
\* before the call.
C14_NoScoreLeak ==
    [][(lastSearch'.n = lastSearch.n + 1 /\ ~lastSearch'.threw) =>
          /\ Len(lastSearch'.results) = Len(lastSearch'.found)
          /\ \A i \in DOMAIN lastSearch'.results :
                \E j \in DOMAIN lastSearch'.found :
                   /\ lastSearch'.found[j].item = lastSearch'.results[i].item
                   /\ lastSearch'.results[i].score \in
                         {lastSearch'.found[j].score,
                          lastSearch'.found[j].score + Boost}
          /\ fuzzyhound'.source = fuzzyhound.source]_vars

\* A second call of search has boosted a result.
C14_Witness ==
    /\ Searched
    /\ lastSearch.n = 2
    /\ \E i \in DOMAIN Results, j \in DOMAIN Found :
          /\ Results[i].item = Found[j].item
          /\ Results[i].score = Found[j].score + Boost

\* C15 (as claimed): an init that succeeds constructs one engine over the
\* collection its call loaded, and the function it returned queries that
\* engine in every call, also after a later call of init.
C15_SessionBinding ==
    /\ session.pc = "function" =>
          /\ fuzzyhound = FuzzySearch(call.result, ncalls)
          /\ session.fns[Len(session.fns)] = ncalls
    /\ (lastSearch.n > 0 /\ lastSearch.fn > 0) =>
          /\ ~lastSearch.threw
          /\ lastSearch.engine = session.fns[lastSearch.fn]

\* ------------------------------------------------------------------------
\* Properties of the dialog
\* ------------------------------------------------------------------------
\* C17 (as claimed): whenever the debounced handler runs a search there is
\* an engine, so the handler raises no error; and while the load is
\* pending or has failed for good, the result list stays empty.
C17_HandlerHasEngine ==
    /\ ui.error # "handleInput"
    /\ session.pc \in {"pending", "rejected"} => ui.rows = <<>>

\* C18: search returns each result of the engine once and nothing else,
\* the rows rendered after it are min(limit, number of results) in
\* number, and limit is the option of the caller, 30 when not given.
C18_CallerTruncates ==
    [][/\ ncalls' # ncalls =>
             \A l \in Languages, o \in LimitOptions :
                initSearchUI(l, o) =>
                   ui'.limit = (IF o = Undefined THEN 30 ELSE o.n)
       /\ (ui.timer /\ ~ui'.timer /\ fuzzyhound # Undefined) =>
          \A found \in EngineResults(SourceOf(fuzzyhound), MaxFound,
                                      EvenScores) :
             (Len(found) = ui'.returned /\ TimerFire(found)) =>
                LET results == search(fuzzyhound, found).results
                IN  /\ Len(results) = Len(found)
                    /\ \A i \in DOMAIN found :
                          \E j \in DOMAIN results :
                             results[j].item = found[i].item
                    /\ Len(ui'.rows) = Min(ui.limit, Len(results))
                    /\ \A k \in DOMAIN ui'.rows :
                          ui'.rows[k].href =
                             ManualLink(ui.language, results[k].item.id)]_vars

\* A search returned more results than the limit, and limit rows are there.
C18_Witness ==
    /\ ui.limit = 1
    /\ ui.returned = 2
    /\ Len(ui.rows) = 1

\* C19 (as claimed): Enter activates the selected row when a row is
\* selected, and in every state in which no row is highlighted it goes to
\* /search.php?lang=<language>&q=<the input value, URL-encoded>.
C19_EnterNavigates ==
    [][(ui.open /\ KeyDown("Enter")) =>
          IF \E k \in DOMAIN ui.rows : ui.rows[k].selected
          THEN /\ ui.selectedIndex + 1 \in DOMAIN ui.rows
               /\ ui.rows[ui.selectedIndex + 1].selected
               /\ ui'.location = ui.rows[ui.selectedIndex + 1].href
          ELSE ui'.location = SearchPage(ui.language, ui.value)]_vars

\* C20: with n rows rendered, ArrowDown takes selectedIndex from i to
\* min(i + 1, n - 1) and ArrowUp to max(i - 1, -1), and after the key the
\* rows that are aria-selected are the row at selectedIndex and no other.
C20_ArrowKeys ==
    [][\A key \in {"ArrowDown", "ArrowUp"} :
          KeyDown(key) =>
             /\ ui'.selectedIndex =
                   (IF key = "ArrowDown"
                    THEN Min(ui.selectedIndex + 1, Len(ui.rows) - 1)
                    ELSE Max(ui.selectedIndex - 1, -1))
             /\ Len(ui'.rows) = Len(ui.rows)
             /\ \A k \in DOMAIN ui'.rows :
                   /\ ui'.rows[k].selected <=> (k - 1 = ui'.selectedIndex)
                   /\ ui'.rows[k].href = ui.rows[k].href]_vars

\* ArrowDown twice over two rows: the second row is the selected one.
C20_Witness ==
    /\ Len(ui.rows) = 2
    /\ ui.selectedIndex = 1
    /\ ui.rows[2].selected
    /\ ~ui.rows[1].selected

\* ------------------------------------------------------------------------
\* Claims about the dialog's backdrop
\* ------------------------------------------------------------------------
\* What show() leaves: the backdrop displayed as a dialog, the page not
\* scrolling, the input focused and empty, no row.
Shown(u) ==
    /\ u.display = "block" /\ u.open /\ u.role = "dialog"
    /\ u.overflow = "hidden"
    /\ u.focus /\ u.value = <<>>
    /\ u.rows = <<>>

\* C21: after the click on a search button the dialog is displayed
\* (display block, class "show", role dialog), the body's overflow is
\* hidden, the input has the focus and an empty value, and the result
\* list is empty.
C21_ShowOpensEmptyDialog ==
    [][ShowClick => Shown(ui')]_vars

\* The dialog reopened after a search had rendered results and a text was
\* in the input.
C21_Witness ==
    /\ Shown(ui)
    /\ ui.returned > 0
    /\ ui.listening
\* A step that closes the open dialog: the close button, Escape, or a
\* click on the backdrop itself.
Closes ==
    /\ ui.open
    /\ \/ HideClick
       \/ KeyDown("Escape")
       \/ DocumentEscape
       \/ BackdropClick("backdrop")

\* The closing transition runs.
Closing == ~ui.open /\ ui.display = "block"

\* C22: from the open dialog, the close button, Escape and a click on the
\* backdrop each let the page scroll again at once and are followed by
\* display none when the closing transition has ended (unless the dialog
\* is opened again before); a click inside the dialog does not close it.
C22_CloseHidesAfterTransition ==
    /\ [][Closes => (~ui'.open /\ ui'.overflow = "auto"
                      /\ ui'.display = ui.display)]_vars
    /\ [][(\E t \in ClickTargets \ {"backdrop"} : BackdropClick(t))
            => (ui'.open /\ ui'.display = "block"
                /\ ui'.overflow = ui.overflow)]_vars
    /\ [][(Closing /\ TransitionEnd) => ui'.display = "none"]_vars
    /\ (Closing ~> (ui.display = "none" \/ ui.open))

\* The dialog was closed and its closing transition has ended.
C22_Witness ==
    /\ ~ui.open /\ ui.display = "none" /\ ui.overflow = "auto"
    /\ ~ui.listening
\* C28: a close hides only the dialog it closed: while the dialog is open
\* (show() has run and hide() has not run since), the backdrop stays
\* display block, whatever transitionend events are delivered.
C28_OpenStaysDisplayed ==
    ui.open => ui.display = "block"
\* C27: selectedIndex is -1 or the index of a rendered row, in every state
\* of the dialog: -1 <= selectedIndex <= (number of rows) - 1.
C27_SelectedIndexInRange ==
    ui.selectedIndex \in -1..(Len(ui.rows) - 1)
\* ------------------------------------------------------------------------
\* Claims about debounce
\* ------------------------------------------------------------------------
\* handleInput has run in the step: it is the only one to assign query, and
\* the only one to end a pending timeout.
InputHandled == ui.timer /\ ~ui'.timer

\* C26: a timeout is pending only after an input event, and each input
\* event replaces it by one of 200 ms; handleInput runs only when a
\* timeout fires, 200 ms or more after the last input event, with the
\* text the input has then, and leaves no timeout behind, so that the
\* input events of a burst cause one search; and a pending timeout fires
\* unless another input event replaces it or the page is left.
C26_DebounceCoalesces ==
    /\ [][(\E v \in Values : InputEvent(v))
            => (ui'.timer /\ ui'.due = DEBOUNCE_DELAY
                /\ ui'.query = ui.query /\ ui'.returned = ui.returned)]_vars
    /\ [][(ui'.query # ui.query \/ ui'.returned # ui.returned
            \/ (ui'.error # ui.error /\ ui'.error = "handleInput"))
            => (InputHandled /\ TimerFires)]_vars
    /\ [][InputHandled
            => (ui.idle >= DEBOUNCE_DELAY /\ ui'.query = ui.value)]_vars
    /\ (ui.timer ~> (~ui.timer \/ ui.idle < DEBOUNCE_DELAY \/ ~OnPage))

\* The timeout of a burst of two input events is due: the text is empty
\* again, and handleInput has not run in the page.
C26_Witness ==
    /\ ui.timer /\ ui.due = 0
    /\ ui.value = <<>>
    /\ ui.query = NoQuery
\* ------------------------------------------------------------------------
\* Claims about the cache under failure and fallback
\* ------------------------------------------------------------------------
\* Attempt i got its response in the step.
Completes(i) ==
    /\ ncalls' = ncalls
    /\ i \in DOMAIN call.attempts
    /\ call.attempts[i].outcome = "pending"
    /\ call'.attempts[i].outcome # "pending"

\* C29 (as claimed): an attempt for L whose fetch or parse fails (network
\* error, body that is not JSON, HTTP error status) leaves the entry of
\* "search-L" as it was, and an entry changes only in a step in which a
\* network load of its own language succeeds.
C29_FailedAttemptLeavesCache ==
    [][\A l \in Languages :
          /\ \A i \in DOMAIN call'.attempts :
                (/\ Completes(i)
                 /\ call'.attempts[i].language = l
                 /\ FetchFailure(call'.attempts[i].response))
                    => store'[Key(l)] = store[Key(l)]
          /\ store'[Key(l)] # store[Key(l)] =>
                \E i \in DOMAIN call'.attempts :
                   /\ Completes(i)
                   /\ call'.attempts[i].language = l
                   /\ call'.attempts[i].outcome = "loaded"
                   /\ ~FetchFailure(call'.attempts[i].response)]_vars
\* The text is an entry a network load of language can have written by
\* time: its data are the normalized index of a response for language.
LoadedEntry(text, language, time) ==
    /\ text # NoItem
    /\ ~JSONparse(text).threw
    /\ text.doc.j = "object"
    /\ LET entry == JSONparse(text).value
       IN  /\ DOMAIN entry = {"data", "time"}
           /\ entry.time \in {Num(t) : t \in 0..time}
           /\ \E r \in Responses(language) :
                 Usable(r) /\ entry.data = ItemsOf(r)

\* C30: the entry under "search-L" is one the browser held before, or the
\* normalized index of a response fetched for L itself; and the step in
\* which the fallback attempt for "en" of a call for L completes leaves the
\* entry of "search-L" as it was, as every attempt for another language
\* does, while the first attempt of every call is for its own language.
C30_NoCrossFiling ==
    /\ [](\A l \in Languages :
             \/ store[Key(l)] \in InitEntries(l)
             \/ LoadedEntry(store[Key(l)], l, now))
    /\ [][\A i \in DOMAIN call'.attempts :
             Completes(i) =>
                \A l \in Languages \ {call'.attempts[i].language} :
                   store'[Key(l)] = store[Key(l)]]_vars
    /\ [](Started => Attempts[1].language = call.requested)

\* The call for "xx" fell back: the items of "en" are under "search-en" and
\* nothing is under "search-xx".
C30_Witness ==
    /\ call.requested = "xx"
    /\ Len(Attempts) = 2
    /\ Attempts[1].outcome = "failed"
    /\ Attempts[2].wrote
    /\ Len(Attempts[2].value.a) > 0
    /\ LoadedEntry(store[Key("en")], "en", now)
    /\ store[Key("xx")] = NoItem

\* The attempts of the call that issued a fetch.
Fetches(c) == {i \in DOMAIN c.attempts : c.attempts[i].fetched}

\* C31 (as claimed): when the fetch of load(L), L other than "en", fails
\* (network error, body that is not JSON, HTTP error status) while the
\* store holds under "search-en" an entry with now < time + 14 days, the
\* call resolves with the data of that entry, its only fetch is the failed
\* one for L, and the attempt for "en" issues none.
C31_FallbackReadsCache ==
    [][(/\ Completes(1)
        /\ call.requested # "en"
        /\ FetchFailure(call'.attempts[1].response)
        /\ HoldsFreshEntry(store, "en", now)) =>
           /\ call'.pc = "resolved"
           /\ call'.result = StoredData(store, "en")
           /\ Len(call'.attempts) = 2
           /\ call'.attempts[2].language = "en"
           /\ call'.attempts[2].outcome = "hit"
           /\ Fetches(call') = {1}]_vars

\* ------------------------------------------------------------------------
\* Claims about input during the load
\* ------------------------------------------------------------------------
\* The text v is in the input while init waits for the index: the user
\* typed it after the page called init, since show() empties the input.
TypedWhileLoading(v) == session.pc = "pending" /\ ui.value = v

\* init ended without an engine.
LoadFailed == session.pc \in {"rejected", "undefined"}

\* The rows are the results handleInput rendered for v with the engine of
\* the loaded index, and v is still the text of the input.
Answered(v) == session.pc = "function" /\ ui.query = v /\ ui.value = v

\* C32 (as claimed): a text other than the empty one that is in the input
\* while the index loads leads to the results of that text being rendered,
\* unless the load fails or the text of the input changes again.
C32_TypedWhileLoadingAnswered ==
    \A v \in Values \ {<<>>} :
       TypedWhileLoading(v) ~> (Answered(v) \/ LoadFailed \/ ui.value # v)

\* ------------------------------------------------------------------------
\* Claims about the links of the results
\* ------------------------------------------------------------------------
\* The language of the attempt that supplied the items of the resolved
\* call.
IndexLanguage == Attempts[Len(Attempts)].language

\* The manual pages of the items of the engine, in the manual of language.
LinksOf(language) ==
    {ManualLink(language, SourceOf(fuzzyhound).a[k].id) :
        k \in DOMAIN SourceOf(fuzzyhound).a}

\* C33 (as claimed): every rendered row links to the manual page, in the
\* language whose index was loaded, of an item of the engine; and the page
\* the dialog navigates to is such a link or the search page of that
\* language, so that after a fallback from L to "en" none of them names L.
C33_LinksNameIndexLanguage ==
    /\ [](call.pc = "resolved" =>
            \A i \in DOMAIN ui.rows :
               ui.rows[i].href \in LinksOf(IndexLanguage))
    /\ [][(ui'.location # ui.location /\ call.pc = "resolved") =>
             ui'.location \in LinksOf(IndexLanguage)
                 \cup {SearchPage(IndexLanguage, ui.value)}]_vars

\* ------------------------------------------------------------------------
\* Claims about the normalizer
\* ------------------------------------------------------------------------
\* The attempts that returned the normalized body of their response.
Loaded == {i \in DOMAIN Attempts : Attempts[i].outcome = "loaded"}

\* The raw index of a response as a mapping: its ids, and the tuple of an
\* id (a JSON text that has a key twice denotes the value of the last).
RawKeys(response) ==
    {response.body.doc.ps[n][1] : n \in DOMAIN response.body.doc.ps}

RawTuple(response, id) == LastPair(response.body.doc.ps, id).xs

\* The entry of id has a name, and the name is not empty.
Named(response, id) ==
    /\ Len(RawTuple(response, id)) >= 1
    /\ RawTuple(response, id)[1].s # <<>>

\* Property k of the item is element n of the tuple, absent when the tuple
\* has no such element.
Copied(item, k, tuple, n) ==
    IF n <= Len(tuple)
    THEN k \in DOMAIN item /\ item[k] = tuple[n].s
    ELSE k \notin DOMAIN item

\* C23: a fetched raw index is normalized without an error; the output has
\* exactly one item for each entry whose name is not empty, with the id,
\* name, description and tag of the entry, and no item for an entry whose
\* name is empty or absent; the ids of the output are pairwise distinct.
C23_NormalizerFilters ==
    /\ \A i \in DOMAIN Attempts :
          Attempts[i].fetched => Attempts[i].outcome \in {"pending", "loaded"}
    /\ \A i \in Loaded :
          LET r == Attempts[i].response
              items == Attempts[i].value.a
          IN  /\ \A id \in RawKeys(r) :
                    Cardinality({n \in DOMAIN items : items[n].id = id})
                       = (IF Named(r, id) THEN 1 ELSE 0)
              /\ \A n \in DOMAIN items :
                    /\ items[n].id \in RawKeys(r)
                    /\ Copied(items[n], "name", RawTuple(r, items[n].id), 1)
                    /\ Copied(items[n], "description",
                              RawTuple(r, items[n].id), 2)
                    /\ Copied(items[n], "tag", RawTuple(r, items[n].id), 3)
              /\ \A n, m \in DOMAIN items :
                    items[n].id = items[m].id => n = m

\* A raw index of two entries, the first without a name: one item.
C23_Witness ==
    \E i \in Loaded :
       LET ps == Attempts[i].response.body.doc.ps
       IN  /\ Len(ps) = 2
           /\ ps[1][1] # ps[2][1]
           /\ ps[1][2].xs = <<>>
           /\ Len(Attempts[i].value.a) = 1
           /\ Attempts[i].value.a[1].id = ps[2][1]
\* The tags that have a type of their own.
TypeTable ==
    { <<<<"phpdoc:varentry">>, <<"Variable">>>>,
      <<<<"refentry">>, <<"Function">>>>,
      <<<<"phpdoc:exceptionref">>, <<"Exception">>>>,
      <<<<"phpdoc:classref">>, <<"Class">>>>,
      <<<<"set">>, <<"Extension">>>>,
      <<<<"book">>, <<"Extension">>>>,
      <<<<"reference">>, <<"Extension">>>> }

\* C24: every item has a type, which is the one the table gives for the
\* tag of its entry, and General when the table has not exactly this tag
\* (a tag that differs in case only, any other tag, no tag).
C24_TypeMapping ==
    \A i \in Loaded :
       \A n \in DOMAIN Attempts[i].value.a :
          LET item == Attempts[i].value.a[n]
              tuple == RawTuple(Attempts[i].response, item.id)
              rows == {p \in TypeTable : Len(tuple) >= 3 /\ tuple[3].s = p[1]}
          IN  /\ "type" \in DOMAIN item
              /\ \A p \in rows : item.type = p[2]
              /\ rows = {} => item.type = <<"General">>

\* Two items of type General: the tag of the first differs from "refentry"
\* in case only, the second has no tag.
C24_Witness ==
    \E i \in Loaded :
       LET items == Attempts[i].value.a
       IN  /\ Len(items) = 2
           /\ "tag" \in DOMAIN items[1]
           /\ items[1].tag = <<"Refentry">>
           /\ items[1].type = <<"General">>
           /\ "tag" \notin DOMAIN items[2]
           /\ items[2].type = <<"General">>
\* The items handed to the engine of the page.
EngineItems ==
    IF fuzzyhound = Undefined THEN {}
    ELSE {fuzzyhound.source.a[n] : n \in DOMAIN fuzzyhound.source.a}

\* The places (of the first ":") at which "::" is found in s, overlapping
\* ones included.
SepPlaces(s) == {i \in 1..(Len(s) - 1) : s[i] = ":" /\ s[i + 1] = ":"}

\* The text of s after its last "::".
AfterLastSep(s) ==
    IF SepPlaces(s) = {} THEN s
    ELSE SubSeq(s, (CHOOSE i \in SepPlaces(s) :
                       \A m \in SepPlaces(s) : m <= i) + 2, Len(s))

\* The segments of s between its separators "::", which are taken from
\* left to right and do not overlap.
RECURSIVE Segments(_)
Segments(s) ==
    IF SepPlaces(s) = {} THEN <<s>>
    ELSE LET i == CHOOSE p \in SepPlaces(s) : \A m \in SepPlaces(s) : p <= m
         IN  <<SubSeq(s, 1, i - 1)>> \o Segments(SubSeq(s, i + 2, Len(s)))

====
